---- MODULE Spec2Model ----
(***************************************************************************)
(* A model of the CPU scheduling simulator of src/Process_Scheduling.py:   *)
(* simulate_fcfs, simulate_sjf, simulate_round_robin and                   *)
(* simulate_priority_preemptive.  One behaviour is one call of one of the  *)
(* four functions on one input list; every iteration of a function's main  *)
(* loop is one action.                                                     *)
(*                                                                         *)
(* A process tuple (name, arrival, burst[, priority]) is a record.  Names  *)
(* are the positions 1..n of the processes in the caller's list, so a name *)
(* is unique and also tells the original input order after the list has    *)
(* been sorted in place.  The code only compares names for equality.       *)
(***************************************************************************)
EXTENDS Integers, Sequences, FiniteSets

\* ---------------------------------------------------------------- bounds
MaxProcs == 2
MaxArrival == 2
MaxBurst == 2
MaxPriority == 2
MaxQuantum == 2
\* The longest timeline a run is followed for: no run on valid input within
\* the bounds comes near it, a Round Robin run with quantum <= 0 never ends.
MaxTimeline == 20
\* Memory_Management.py: the longest block list and process list, the largest size.
MaxBlocks == 3
MaxRequests == 2
MaxSize == 3

\* ------------------------------------------------------- program constants
\* The subject of an idle timeline entry ("IDLE" in the code; process names
\* are 1..n here, so 0 is free).
IDLE == 0
\* start_time / finish_time before they are set.
Unset == -1
\* The default of simulate_round_robin's quantum parameter.
DefaultQuantum == 2
\* The fit functions' "return -1": no block is large enough.
NoBlock == -1
\* Python's None in the Optional[int] fields of Block and Process.
None == -2

VARIABLES
    policy,             \* which simulate_* function runs
    quantum,            \* simulate_round_robin's parameter
    processes_data,     \* the caller's list (sorted in place by FCFS and SJF)
    pc,                 \* "start", "loop", "done"
    current_time,       \* the clock (FCFS: completion_time, the previous completion)
    loop_index,         \* FCFS: position of the for loop in processes_data
    working_list,       \* SJF: [name, arrival, burst, completed] in sorted order
    details,            \* RR: proc_details, PRIO: details; keyed by name
    ready_queue,        \* RR: deque of names
    process_index,      \* RR: next entry of sorted_processes to admit (1-based)
    gantt_chart,        \* sequence of <<subject, start, end>>
    results,            \* rows of the output table
    total_waiting_time,
    total_turnaround_time,
    outcome             \* "running", then "ok" or the exception that ended the call

\* Memory_Management.py. Block and Process objects live in a heap and the
\* lists hold references to them, so that a list and its clone can be told
\* apart from two names of the same objects.
VARIABLES
    block_heap,         \* reference -> Block [bid, size, initial_size, allocated_to]
    process_heap,       \* reference -> Process [pid, size, status, allocated_block_id, fragmentation]
    initial_blocks,     \* main: the list of Block references from generate_input_data
    initial_processes,  \* main: the list of Process references from generate_input_data
    algo,               \* main: position of "for name, func in algos.items()" (1-based)
    mem_pc,             \* "main", "loop" (inside allocate's for loop), "done"
    current_blocks,     \* allocate: the cloned block list
    current_processes,  \* allocate: the cloned process list, sorted by pid
    block_map,          \* allocate: bid -> Block reference
    p_index             \* allocate: position of "for p in current_processes" (1-based)

mem_vars == << block_heap, process_heap, initial_blocks, initial_processes, algo,
               mem_pc, current_blocks, current_processes, block_map, p_index >>

vars == << policy, quantum, processes_data, pc, current_time, loop_index,
           working_list, details, ready_queue, process_index, gantt_chart,
           results, total_waiting_time, total_turnaround_time, outcome, mem_vars >>

\* The memory simulation has not been given anything to do.
MemoryIdle ==
    /\ block_heap = << >>
    /\ process_heap = << >>
    /\ initial_blocks = << >>
    /\ initial_processes = << >>
    /\ algo = 1
    /\ mem_pc = "done"
    /\ current_blocks = << >>
    /\ current_processes = << >>
    /\ block_map = << >>
    /\ p_index = 1

\* ---------------------------------------------------------------- helpers
Max2(a, b) == IF a >= b THEN a ELSE b
Min2(a, b) == IF a <= b THEN a ELSE b
SetMin(S) == CHOOSE x \in S : \A y \in S : x <= y
SetMax(S) == CHOOSE x \in S : \A y \in S : x >= y

RECURSIVE SumSeq(_)
SumSeq(s) == IF s = << >> THEN 0 ELSE s[1] + SumSeq(Tail(s))

\* list.sort(key=...) / sorted(..., key=...): Python's sort is stable, so the
\* element at position j ends up after every element with a smaller key and
\* after the elements with an equal key that stood before it.
RankUnstable(s, f, j) ==
    Cardinality({ k \in 1..Len(s) : s[k][f] < s[j][f] \/ (s[k][f] = s[j][f] /\ k > j) }) + 1

Rank(s, f, j) ==
    Cardinality({ k \in 1..Len(s) : s[k][f] < s[j][f] \/ (s[k][f] = s[j][f] /\ k < j) }) + 1

StableSortBy(s, f) ==
    [ i \in 1..Len(s) |-> s[CHOOSE j \in 1..Len(s) : Rank(s, f, j) = i] ]

Names == { processes_data[i].name : i \in 1..Len(processes_data) }
Proc(n) == processes_data[CHOOSE i \in 1..Len(processes_data) : processes_data[i].name = n]

\* ----------------------------------------------------------------- inputs
\* The test case of the main block, without and with the priority column.
test_processes_no_priority ==
    << [name |-> 1, arrival |-> 0, burst |-> 7],
       [name |-> 2, arrival |-> 2, burst |-> 4],
       [name |-> 3, arrival |-> 4, burst |-> 1],
       [name |-> 4, arrival |-> 5, burst |-> 4] >>

test_processes_with_priority ==
    << [name |-> 1, arrival |-> 0, burst |-> 7, priority |-> 2],
       [name |-> 2, arrival |-> 2, burst |-> 4, priority |-> 1],
       [name |-> 3, arrival |-> 4, burst |-> 1, priority |-> 3],
       [name |-> 4, arrival |-> 5, burst |-> 4, priority |-> 4] >>

\* Three processes whose input order is the reverse of their arrival order,
\* two of them with the same burst time (and the same priority).
reversed_arrival_no_priority ==
    << [name |-> 1, arrival |-> 2, burst |-> 1],
       [name |-> 2, arrival |-> 1, burst |-> 1],
       [name |-> 3, arrival |-> 0, burst |-> 3] >>

reversed_arrival_with_priority ==
    << [name |-> 1, arrival |-> 2, burst |-> 1, priority |-> 1],
       [name |-> 2, arrival |-> 1, burst |-> 1, priority |-> 1],
       [name |-> 3, arrival |-> 0, burst |-> 3, priority |-> 2] >>

Policies == { "FCFS", "SJF", "RR", "PRIO" }

\* Valid inputs: unique names, arrival >= 0, burst > 0 (priority: an integer).
\* Every list of up to MaxProcs processes within the bounds, and the lists above.
InputWithoutPriority(l) ==
    \/ \E n \in 1..MaxProcs :
          \E f \in [1..n -> [arrival : 0..MaxArrival, burst : 1..MaxBurst]] :
              l = [ i \in 1..n |-> [name |-> i, arrival |-> f[i].arrival,
                                    burst |-> f[i].burst] ]
    \/ l \in { test_processes_no_priority, reversed_arrival_no_priority }

InputWithPriority(l) ==
    \/ \E n \in 1..MaxProcs :
          \E f \in [1..n -> [arrival : 0..MaxArrival, burst : 1..MaxBurst,
                             priority : 1..MaxPriority]] :
              l = [ i \in 1..n |-> [name |-> i, arrival |-> f[i].arrival,
                                    burst |-> f[i].burst, priority |-> f[i].priority] ]
    \/ l \in { test_processes_with_priority, reversed_arrival_with_priority }

\* The state at the call, whatever the arguments are.
AtCall ==
    /\ pc = "start"
    /\ outcome = "running"
    /\ current_time = 0
    /\ loop_index = 1
    /\ working_list = << >>
    /\ details = << >>
    /\ ready_queue = << >>
    /\ process_index = 1
    /\ gantt_chart = << >>
    /\ results = << >>
    /\ total_waiting_time = 0
    /\ total_turnaround_time = 0

Init ==
    /\ policy \in Policies
    /\ quantum \in (IF policy = "RR" THEN 1..MaxQuantum ELSE { DefaultQuantum })
    /\ IF policy = "PRIO" THEN InputWithPriority(processes_data)
                          ELSE InputWithoutPriority(processes_data)
    /\ AtCall
    /\ MemoryIdle

\* Any argument the functions accept without a type error: the empty list,
\* arrival and burst times that are negative or zero, a quantum <= 0.
AnyInputWithoutPriority(l) ==
    \E n \in 0..MaxProcs :
        \E f \in [1..n -> [arrival : (-1)..MaxArrival, burst : (-1)..MaxBurst]] :
            l = [ i \in 1..n |-> [name |-> i, arrival |-> f[i].arrival,
                                  burst |-> f[i].burst] ]

AnyInputWithPriority(l) ==
    \E n \in 0..MaxProcs :
        \E f \in [1..n -> [arrival : (-1)..MaxArrival, burst : (-1)..MaxBurst,
                           priority : 1..MaxPriority]] :
            l = [ i \in 1..n |-> [name |-> i, arrival |-> f[i].arrival,
                                  burst |-> f[i].burst, priority |-> f[i].priority] ]

InitAnyInput ==
    /\ policy \in Policies
    /\ quantum \in (IF policy = "RR" THEN (-1)..MaxQuantum ELSE { DefaultQuantum })
    /\ IF policy = "PRIO" THEN AnyInputWithPriority(processes_data)
                          ELSE AnyInputWithoutPriority(processes_data)
    /\ AtCall
    /\ MemoryIdle

\* avg_waiting_time = total_waiting_time / num_processes: Python raises
\* ZeroDivisionError when the list is empty.
AverageOutcome(num_processes) == IF num_processes = 0 THEN "ZeroDivisionError" ELSE "ok"

RowSwapped(name, at, bt, ct, wt, tt) ==
    [name |-> name, arrival |-> at, burst |-> bt, completion_time |-> ct,
     waiting_time |-> tt, turnaround_time |-> wt]

Row(name, at, bt, ct, wt, tt) ==
    [name |-> name, arrival |-> at, burst |-> bt, completion_time |-> ct,
     waiting_time |-> wt, turnaround_time |-> tt]

\* ------------------------------------------------------------------- FCFS
\* processes_data.sort(key=lambda x: x[1]) and the initialisations.
FcfsStart ==
    /\ policy = "FCFS" /\ pc = "start"
    /\ processes_data' = StableSortBy(processes_data, "arrival")
    /\ current_time' = 0
    /\ loop_index' = 1
    /\ gantt_chart' = << >>
    /\ results' = << >>
    /\ total_waiting_time' = 0
    /\ total_turnaround_time' = 0
    /\ pc' = "loop"
    /\ UNCHANGED << mem_vars, policy, quantum, outcome, working_list, details, ready_queue, process_index >>

\* start_time = max(completion_time, arrival)
FcfsStartAtArrival(completion_time, arrival) == arrival

FcfsStartTime(completion_time, arrival) == Max2(completion_time, arrival)

\* One iteration of "for name, arrival, burst in processes_data".
FcfsStep ==
    /\ policy = "FCFS" /\ pc = "loop"
    /\ loop_index <= Len(processes_data)
    /\ LET p == processes_data[loop_index]
           start_time == FcfsStartTime(current_time, p.arrival)
           waiting_time == start_time - p.arrival
           completion_time == start_time + p.burst
           turnaround_time == completion_time - p.arrival
       IN  /\ current_time' = completion_time
           /\ total_waiting_time' = total_waiting_time + waiting_time
           /\ total_turnaround_time' = total_turnaround_time + turnaround_time
           /\ results' = Append(results, Row(p.name, p.arrival, p.burst, completion_time,
                                             waiting_time, turnaround_time))
           /\ gantt_chart' = Append(gantt_chart, << p.name, start_time, completion_time >>)
    /\ loop_index' = loop_index + 1
    /\ UNCHANGED << mem_vars, policy, quantum, outcome, processes_data, pc, working_list, details,
                    ready_queue, process_index >>

\* The for loop is exhausted: the table and the chart are printed.
FcfsFinish ==
    /\ policy = "FCFS" /\ pc = "loop"
    /\ loop_index > Len(processes_data)
    /\ pc' = "done"
    /\ outcome' = AverageOutcome(Len(processes_data))
    /\ UNCHANGED << mem_vars, policy, quantum, processes_data, current_time, loop_index,
                    working_list, details, ready_queue, process_index, gantt_chart,
                    results, total_waiting_time, total_turnaround_time >>

\* -------------------------------------------------------------------- SJF
\* processes_data.sort(key=lambda x: x[1]), the initialisations and
\* working_list = [list(p) + [False] for p in processes_data].
SjfStart ==
    /\ policy = "SJF" /\ pc = "start"
    /\ processes_data' = StableSortBy(processes_data, "arrival")
    /\ working_list' = [ i \in 1..Len(processes_data) |->
                           LET p == StableSortBy(processes_data, "arrival")[i]
                           IN  [name |-> p.name, arrival |-> p.arrival, burst |-> p.burst,
                                completed |-> FALSE] ]
    /\ current_time' = 0
    /\ gantt_chart' = << >>
    /\ results' = << >>
    /\ total_waiting_time' = 0
    /\ total_turnaround_time' = 0
    /\ pc' = "loop"
    /\ UNCHANGED << mem_vars, policy, quantum, outcome, loop_index, details, ready_queue, process_index >>

\* completed_processes counts the rows appended to results (line 147).
completed_processes == Len(results)

\* available_jobs = [p for p in working_list if p[1] <= current_time and p[3] == False]
SjfIsAvailableIgnoringArrival(p) == p.completed = FALSE

SjfIsAvailable(p) == p.arrival <= current_time /\ p.completed = FALSE
available_jobs == SelectSeq(working_list, SjfIsAvailable)

\* available_jobs.sort(key=lambda x: x[2]); selected_job = available_jobs[0]
SjfSelectLongest(jobs) == StableSortBy(jobs, "burst")[Len(jobs)]

SjfSelectByInputOrder(jobs) == StableSortBy(StableSortBy(jobs, "name"), "burst")[1]

SjfSelect(jobs) == StableSortBy(jobs, "burst")[1]

\* No job is available: the clock jumps to the next arrival (lines 118-123).
SjfIdle ==
    /\ policy = "SJF" /\ pc = "loop"
    /\ completed_processes < Len(processes_data)
    /\ available_jobs = << >>
    /\ LET next_arrival == SetMin({ working_list[i].arrival :
                                      i \in { j \in 1..Len(working_list) :
                                                working_list[j].completed = FALSE } })
       IN  /\ gantt_chart' = Append(gantt_chart, << IDLE, current_time, next_arrival >>)
           /\ current_time' = next_arrival
    /\ UNCHANGED << mem_vars, policy, quantum, outcome, processes_data, pc, loop_index, working_list, details,
                    ready_queue, process_index, results, total_waiting_time,
                    total_turnaround_time >>

\* The shortest available job runs to completion (lines 125-147).
SjfDispatch ==
    /\ policy = "SJF" /\ pc = "loop"
    /\ completed_processes < Len(processes_data)
    /\ available_jobs # << >>
    /\ LET selected_job == SjfSelect(available_jobs)
           start_time == current_time
           completion_time == start_time + selected_job.burst
           waiting_time == start_time - selected_job.arrival
           turnaround_time == completion_time - selected_job.arrival
           \* for p in working_list: if p[0] == name and p[3] == False: p[3] = True; break
           hit == { i \in 1..Len(working_list) :
                      working_list[i].name = selected_job.name
                      /\ working_list[i].completed = FALSE }
       IN  /\ current_time' = completion_time
           /\ total_waiting_time' = total_waiting_time + waiting_time
           /\ total_turnaround_time' = total_turnaround_time + turnaround_time
           /\ working_list' = IF hit = {} THEN working_list
                              ELSE [working_list EXCEPT ![SetMin(hit)].completed = TRUE]
           /\ results' = Append(results, Row(selected_job.name, selected_job.arrival,
                                             selected_job.burst, completion_time,
                                             waiting_time, turnaround_time))
           /\ gantt_chart' = Append(gantt_chart,
                                    << selected_job.name, start_time, completion_time >>)
    /\ UNCHANGED << mem_vars, policy, quantum, outcome, processes_data, pc, loop_index, details, ready_queue,
                    process_index >>

\* completed_processes == num_processes: the while loop ends.
SjfFinish ==
    /\ policy = "SJF" /\ pc = "loop"
    /\ ~(completed_processes < Len(processes_data))
    /\ pc' = "done"
    /\ outcome' = AverageOutcome(Len(processes_data))
    /\ UNCHANGED << mem_vars, policy, quantum, processes_data, current_time, loop_index,
                    working_list, details, ready_queue, process_index, gantt_chart,
                    results, total_waiting_time, total_turnaround_time >>

\* ------------------------------------------------------------ Round Robin
UnsortedProcesses == processes_data

\* sorted_processes = sorted(processes_data, key=lambda x: x[1]): a copy, the
\* caller's list is left as it is.
sorted_processes == StableSortBy(processes_data, "arrival")

RrDetailsStartAtZero(p) ==
    [arrival |-> p.arrival, burst |-> p.burst, remaining |-> p.burst,
     start_time |-> 0, wait |-> 0, turnaround |-> 0, completed |-> FALSE,
     completion_time |-> Unset]

\* proc_details = {p[0]: {...} for p in processes_data}; 'completion_time' is
\* only stored at completion (Unset until then).
RrDetails(p) ==
    [arrival |-> p.arrival, burst |-> p.burst, remaining |-> p.burst,
     start_time |-> Unset, wait |-> 0, turnaround |-> 0, completed |-> FALSE,
     completion_time |-> Unset]

RrStart ==
    /\ policy = "RR" /\ pc = "start"
    /\ details' = [ n \in Names |-> RrDetails(Proc(n)) ]
    /\ ready_queue' = << >>
    /\ gantt_chart' = << >>
    /\ current_time' = 0
    /\ process_index' = 1
    /\ pc' = "loop"
    /\ UNCHANGED << mem_vars, policy, quantum, outcome, processes_data, loop_index, working_list, results,
                    total_waiting_time, total_turnaround_time >>

\* while process_index < len(sorted_processes) and
\*       sorted_processes[process_index][1] <= current_time: append, index += 1
RECURSIVE Admit(_, _, _)
Admit(q, idx, t) ==
    IF idx <= Len(sorted_processes) /\ sorted_processes[idx].arrival <= t
    THEN Admit(Append(q, sorted_processes[idx].name), idx + 1, t)
    ELSE [queue |-> q, index |-> idx]

RrFullQuantum(q, remaining) == q

RrWholeRemaining(q, remaining) == remaining

\* time_slice = min(quantum, details['remaining'])
RrTimeSlice(q, remaining) == Min2(q, remaining)

\* Steps 2 and 3 of the loop body (lines 197-210): the arrivals up to the end
\* of the slice are admitted, then the process is re-queued unless finished.
RrRequeueFirst(q, idx, t, name, finished) ==
    Admit(IF finished THEN q ELSE Append(q, name), idx, t)

RrRequeueAtFront(q, idx, t, name, finished) ==
    LET a == Admit(q, idx, t)
    IN  [queue |-> IF finished THEN a.queue ELSE << name >> \o a.queue, index |-> a.index]

RrAdmitThenRequeue(q, idx, t, name, finished) ==
    LET a == Admit(q, idx, t)
    IN  [queue |-> IF finished THEN a.queue ELSE Append(a.queue, name), index |-> a.index]

\* while process_index < len(sorted_processes) or ready_queue
RrLoopCondQueueOnly == ready_queue # << >>

RrLoopCond == process_index <= Len(sorted_processes) \/ ready_queue # << >>

\* Lines 220-232: the totals and the table, in arrival order.
RrMetrics ==
    /\ total_waiting_time' =
          SumSeq([ i \in 1..Len(processes_data) |-> details[processes_data[i].name].wait ])
    /\ total_turnaround_time' =
          SumSeq([ i \in 1..Len(processes_data) |-> details[processes_data[i].name].turnaround ])
    /\ results' = [ i \in 1..Len(sorted_processes) |->
                      LET n == sorted_processes[i].name
                          d == details[n]
                      IN  Row(n, d.arrival, d.burst, d.completion_time, d.wait, d.turnaround) ]
    /\ outcome' = AverageOutcome(Len(processes_data))
    /\ pc' = "done"

\* One iteration whose ready queue is not empty after the arrivals check.
RrSlice ==
    /\ policy = "RR" /\ pc = "loop"
    /\ RrLoopCond
    /\ Len(gantt_chart) < MaxTimeline
    /\ LET a1 == Admit(ready_queue, process_index, current_time)
       IN  /\ a1.queue # << >>
           /\ LET current_proc_name == Head(a1.queue)
                  d == details[current_proc_name]
                  time_slice == RrTimeSlice(quantum, d.remaining)
                  start_of_slice == current_time
                  end_of_slice == current_time + time_slice
                  remaining == d.remaining - time_slice
                  started == IF d.start_time = Unset THEN current_time ELSE d.start_time
                  r == RrAdmitThenRequeue(Tail(a1.queue), a1.index, end_of_slice,
                                          current_proc_name, remaining = 0)
              IN  /\ current_time' = end_of_slice
                  /\ gantt_chart' = Append(gantt_chart,
                                           << current_proc_name, start_of_slice, end_of_slice >>)
                  /\ details' =
                        [details EXCEPT ![current_proc_name] =
                           IF remaining = 0
                           THEN [d EXCEPT !.remaining = remaining,
                                          !.start_time = started,
                                          !.completed = TRUE,
                                          !.turnaround = end_of_slice - d.arrival,
                                          !.wait = (end_of_slice - d.arrival) - d.burst,
                                          !.completion_time = end_of_slice]
                           ELSE [d EXCEPT !.remaining = remaining, !.start_time = started]]
                  /\ ready_queue' = r.queue
                  /\ process_index' = r.index
    /\ UNCHANGED << mem_vars, policy, quantum, outcome, processes_data, pc, loop_index, working_list, results,
                    total_waiting_time, total_turnaround_time >>

\* One iteration whose ready queue is empty after the arrivals check: the
\* clock jumps to the next arrival, or the loop is left by break.
RrIdle ==
    /\ policy = "RR" /\ pc = "loop"
    /\ RrLoopCond
    /\ LET a1 == Admit(ready_queue, process_index, current_time)
       IN  /\ a1.queue = << >>
           /\ IF a1.index <= Len(sorted_processes)
              THEN LET next_arrival == sorted_processes[a1.index].arrival
                   IN  /\ gantt_chart' = Append(gantt_chart,
                                                << IDLE, current_time, next_arrival >>)
                       /\ current_time' = next_arrival
                       /\ process_index' = a1.index
                       /\ UNCHANGED << pc, results, total_waiting_time,
                                       total_turnaround_time, outcome >>
              ELSE /\ RrMetrics
                   /\ UNCHANGED << gantt_chart, current_time, process_index >>
    /\ UNCHANGED << mem_vars, policy, quantum, processes_data, loop_index, working_list, details,
                    ready_queue >>

\* The loop condition is false: metrics and table.
RrFinish ==
    /\ policy = "RR" /\ pc = "loop"
    /\ ~RrLoopCond
    /\ RrMetrics
    /\ UNCHANGED << mem_vars, policy, quantum, processes_data, current_time, loop_index,
                    working_list, details, ready_queue, process_index, gantt_chart >>

\* ---------------------------------------------------- Preemptive priority
\* details = {p[0]: {...} for p in processes_data}
PrioDetails(p) ==
    [arrival |-> p.arrival, burst |-> p.burst, priority |-> p.priority,
     remaining |-> p.burst, completed |-> FALSE, start_time |-> Unset,
     finish_time |-> Unset]

\* The keys of details in iteration order: a dict keeps insertion order, which
\* is the order of processes_data.
DetailNames == [ i \in 1..Len(processes_data) |-> processes_data[i].name ]

MinArrival == SetMin({ processes_data[i].arrival : i \in 1..Len(processes_data) })

max_arrival == SetMax({ processes_data[i].arrival : i \in 1..Len(processes_data) })
total_burst == SumSeq([ i \in 1..Len(processes_data) |-> processes_data[i].burst ])

\* max_time = max_arrival + total_burst + 1
MaxTimeWithoutBurst == max_arrival + 1

max_time == max_arrival + total_burst + 1

\* max_arrival = max(p[1] for p in processes_data): Python raises ValueError
\* when the list is empty.
PrioStart ==
    /\ policy = "PRIO" /\ pc = "start"
    /\ current_time' = 0
    /\ details' = [ n \in Names |-> PrioDetails(Proc(n)) ]
    /\ gantt_chart' = << >>
    /\ IF Len(processes_data) = 0
       THEN pc' = "done" /\ outcome' = "ValueError"
       ELSE pc' = "loop" /\ UNCHANGED outcome
    /\ UNCHANGED << mem_vars, policy, quantum, processes_data, loop_index, working_list, ready_queue,
                    process_index, results, total_waiting_time, total_turnaround_time >>

Incomplete == { n \in Names : ~details[n].completed }

\* while current_time < max_time and sum(1 for d in details.values() if not d['completed']) > 0
PrioLoopCond == current_time < max_time /\ Cardinality(Incomplete) > 0

\* available = [name for name, d in details.items()
\*              if d['arrival'] <= current_time and not d['completed']]
PrioIsAvailable(n) == details[n].arrival <= current_time /\ ~details[n].completed
available == SelectSeq(DetailNames, PrioIsAvailable)

\* min(available, key=lambda name: details[name]['priority']): the first of
\* the minimal elements.
PrioSelectLast(av) ==
    av[CHOOSE i \in 1..Len(av) :
         /\ \A j \in 1..Len(av) : details[av[i]].priority <= details[av[j]].priority
         /\ \A j \in (i + 1)..Len(av) : details[av[i]].priority < details[av[j]].priority]

PrioSelect(av) ==
    av[CHOOSE i \in 1..Len(av) :
         /\ \A j \in 1..Len(av) : details[av[i]].priority <= details[av[j]].priority
         /\ \A j \in 1..(i - 1) : details[av[i]].priority < details[av[j]].priority]

\* Lines 284-294: completion if run uninterrupted, or the earliest arrival
\* after current_time of a process with a strictly smaller priority number.
NextEventTimeAnyArrival(name) ==
    SetMin({ current_time + details[name].remaining }
           \cup { details[n].arrival : n \in { m \in Names :
                      details[m].arrival > current_time } })

NextEventTimeAtCompletion(name) == current_time + details[name].remaining

NextEventTime(name) ==
    SetMin({ current_time + details[name].remaining }
           \cup { details[n].arrival : n \in { m \in Names :
                      /\ details[m].arrival > current_time
                      /\ details[m].priority < details[name].priority } })

\* Lines 311-324: the metrics, from finish_time whether it was set or not.
PrioMetrics ==
    LET rows == [ i \in 1..Len(DetailNames) |->
                    LET n == DetailNames[i]
                        d == details[n]
                        turnaround == d.finish_time - d.arrival
                        wait == turnaround - d.burst
                    IN  Row(n, d.arrival, d.burst, d.finish_time, wait, turnaround) ]
    IN  /\ results' = rows
        /\ total_waiting_time' = SumSeq([ i \in 1..Len(rows) |-> rows[i].waiting_time ])
        /\ total_turnaround_time' = SumSeq([ i \in 1..Len(rows) |-> rows[i].turnaround_time ])
        /\ outcome' = AverageOutcome(Len(processes_data))
        /\ pc' = "done"

\* No process is available (lines 267-275).
PrioIdle ==
    /\ policy = "PRIO" /\ pc = "loop"
    /\ PrioLoopCond
    /\ available = << >>
    /\ IF current_time < max_arrival
       THEN LET next_arrival == SetMin({ details[n].arrival :
                                           n \in { m \in Names :
                                                     details[m].arrival > current_time } })
            IN  /\ gantt_chart' = Append(gantt_chart, << IDLE, current_time, next_arrival >>)
                /\ current_time' = next_arrival
       ELSE /\ current_time' = current_time + 1
            /\ UNCHANGED gantt_chart
    /\ UNCHANGED << mem_vars, policy, quantum, outcome, processes_data, pc, loop_index, working_list, details,
                    ready_queue, process_index, results, total_waiting_time,
                    total_turnaround_time >>

\* The highest-priority available process runs until the next event
\* (lines 277-309).
PrioDispatch ==
    /\ policy = "PRIO" /\ pc = "loop"
    /\ PrioLoopCond
    /\ available # << >>
    /\ LET current_process == PrioSelect(available)
           d == details[current_process]
           next_event_time == NextEventTime(current_process)
           time_slice == next_event_time - current_time
           started == IF d.start_time = Unset THEN current_time ELSE d.start_time
           remaining == d.remaining - time_slice
       IN  /\ gantt_chart' = Append(gantt_chart,
                                    << current_process, current_time, current_time + time_slice >>)
           /\ current_time' = current_time + time_slice
           /\ details' =
                 [details EXCEPT ![current_process] =
                    IF remaining = 0
                    THEN [d EXCEPT !.start_time = started, !.remaining = remaining,
                                   !.completed = TRUE,
                                   !.finish_time = current_time + time_slice]
                    ELSE [d EXCEPT !.start_time = started, !.remaining = remaining]]
    /\ UNCHANGED << mem_vars, policy, quantum, outcome, processes_data, pc, loop_index, working_list,
                    ready_queue, process_index, results, total_waiting_time,
                    total_turnaround_time >>

\* The loop condition is false: every process is completed, or the clock has
\* reached max_time.
PrioFinish ==
    /\ policy = "PRIO" /\ pc = "loop"
    /\ ~PrioLoopCond
    /\ PrioMetrics
    /\ UNCHANGED << mem_vars, policy, quantum, processes_data, current_time, loop_index,
                    working_list, details, ready_queue, process_index, gantt_chart >>

Next == FcfsStart \/ FcfsStep \/ FcfsFinish
        \/ SjfStart \/ SjfIdle \/ SjfDispatch \/ SjfFinish
        \/ RrStart \/ RrSlice \/ RrIdle \/ RrFinish
        \/ PrioStart \/ PrioIdle \/ PrioDispatch \/ PrioFinish

Spec == Init /\ [][Next]_vars

\* Every function is a sequential program: a loop iteration that can run, runs.
FairSpec == Spec /\ WF_vars(Next)

\* The same functions, called with any arguments.
SpecAnyInput == InitAnyInput /\ [][Next]_vars

\* ====================================================== Memory_Management.py
\* generate_input_data's two lists.
BLOCK_SIZES == << 100, 500, 200, 300, 600 >>
PROCESS_SIZES == << 212, 417, 112, 426 >>

\* Block(bid, size): __post_init__ stores the size as initial_size.
NewBlock(bid, size) ==
    [bid |-> bid, size |-> size, initial_size |-> size, allocated_to |-> None]

\* Process(pid, size)
NewProcess(pid, size) ==
    [pid |-> pid, size |-> size, status |-> "PENDING", allocated_block_id |-> None,
     fragmentation |-> None]

\* blocks = [Block(bid=i+1, size=s) for i, s in enumerate(BLOCK_SIZES)] and the
\* same for the processes: ids are the positions in the lists.
GeneratedInput(block_sizes, process_sizes) ==
    /\ block_heap = [ i \in 1..Len(block_sizes) |-> NewBlock(i, block_sizes[i]) ]
    /\ process_heap = [ i \in 1..Len(process_sizes) |-> NewProcess(i, process_sizes[i]) ]
    /\ initial_blocks = [ i \in 1..Len(block_sizes) |-> i ]
    /\ initial_processes = [ i \in 1..Len(process_sizes) |-> i ]

\* main before its loop over the algorithms, with the lists of
\* generate_input_data or any lists of sizes within the bounds.
MemInit ==
    /\ policy = "none" /\ quantum = DefaultQuantum /\ processes_data = << >>
    /\ AtCall
    /\ \/ GeneratedInput(BLOCK_SIZES, PROCESS_SIZES)
       \/ \E nb \in 0..MaxBlocks, np \in 0..MaxRequests :
             \E bs \in [1..nb -> 1..MaxSize], ps \in [1..np -> 1..MaxSize] :
                 GeneratedInput(bs, ps)
    /\ algo = 1
    /\ mem_pc = "main"
    /\ current_blocks = << >>
    /\ current_processes = << >>
    /\ block_map = << >>
    /\ p_index = 1

\* algos = {"First-Fit": ..., "Best-Fit": ..., "Worst-Fit": ...}, in dict order.
algos == << "First-Fit", "Best-Fit", "Worst-Fit" >>

\* list.sort(key=...) on a list of references; key maps a reference to its key.
RefRank(s, key, j) ==
    Cardinality({ k \in 1..Len(s) :
                    key[s[k]] < key[s[j]] \/ (key[s[k]] = key[s[j]] /\ k < j) }) + 1

SortRefsBy(s, key) ==
    [ i \in 1..Len(s) |-> s[CHOOSE j \in 1..Len(s) : RefRank(s, key, j) = i] ]

CloneMemoryAliased(blocks, processes) ==
    [block_heap |-> block_heap, process_heap |-> process_heap,
     new_blocks |-> blocks, new_processes |-> processes,
     block_map |-> [ b \in { block_heap[blocks[i]].bid : i \in 1..Len(blocks) } |->
                      blocks[SetMax({ i \in 1..Len(blocks) :
                                        block_heap[blocks[i]].bid = b })] ]]

\* clone_memory: new Block and Process objects with the bid and size (pid and
\* size) of the given ones, and block_map from the new blocks (for a repeated
\* bid the dict keeps the last block).
clone_memory(blocks, processes) ==
    LET new_blocks == [ i \in 1..Len(blocks) |-> Len(block_heap) + i ]
        new_processes == [ i \in 1..Len(processes) |-> Len(process_heap) + i ]
    IN  [block_heap |-> block_heap \o
                          [ i \in 1..Len(blocks) |->
                              NewBlock(block_heap[blocks[i]].bid, block_heap[blocks[i]].size) ],
         process_heap |-> process_heap \o
                            [ i \in 1..Len(processes) |->
                                NewProcess(process_heap[processes[i]].pid,
                                           process_heap[processes[i]].size) ],
         new_blocks |-> new_blocks,
         new_processes |-> new_processes,
         block_map |-> [ b \in { block_heap[blocks[i]].bid : i \in 1..Len(blocks) } |->
                          new_blocks[SetMax({ i \in 1..Len(blocks) :
                                                block_heap[blocks[i]].bid = b })] ]]

FirstFitStrict(blocks, p_size) ==
    LET fits == { i \in 1..Len(blocks) : block_heap[blocks[i]].size > p_size }
    IN  IF fits = {} THEN NoBlock ELSE block_heap[blocks[SetMin(fits)]].bid

\* first_fit_logic: the bid of the first block with size >= p_size, or -1.
first_fit_logic(blocks, p_size) ==
    LET fits == { i \in 1..Len(blocks) : block_heap[blocks[i]].size >= p_size }
    IN  IF fits = {} THEN NoBlock ELSE block_heap[blocks[SetMin(fits)]].bid

\* The loop of best_fit_logic from position i on; is_inf says that
\* min_fragmentation is still float('inf').
RECURSIVE BestFitLoop(_, _, _, _, _, _)
BestFitLoop(blocks, p_size, i, best_id, is_inf, min_fragmentation) ==
    IF i > Len(blocks) THEN best_id
    ELSE LET block == block_heap[blocks[i]]
             fragmentation == block.size - p_size
         IN  IF block.size >= p_size /\ (is_inf \/ fragmentation < min_fragmentation)
             THEN BestFitLoop(blocks, p_size, i + 1, block.bid, FALSE, fragmentation)
             ELSE BestFitLoop(blocks, p_size, i + 1, best_id, is_inf, min_fragmentation)

BestFitLastOfTies(blocks, p_size) ==
    LET fits == { i \in 1..Len(blocks) : block_heap[blocks[i]].size >= p_size }
        least == { i \in fits : \A j \in fits :
                     block_heap[blocks[i]].size <= block_heap[blocks[j]].size }
    IN  IF fits = {} THEN NoBlock ELSE block_heap[blocks[SetMax(least)]].bid

best_fit_logic(blocks, p_size) == BestFitLoop(blocks, p_size, 1, NoBlock, TRUE, 0)

\* The loop of worst_fit_logic from position i on; max_fragmentation starts at -1.
RECURSIVE WorstFitLoop(_, _, _, _, _)
WorstFitLoop(blocks, p_size, i, worst_id, max_fragmentation) ==
    IF i > Len(blocks) THEN worst_id
    ELSE LET block == block_heap[blocks[i]]
             fragmentation == block.size - p_size
         IN  IF block.size >= p_size /\ fragmentation > max_fragmentation
             THEN WorstFitLoop(blocks, p_size, i + 1, block.bid, fragmentation)
             ELSE WorstFitLoop(blocks, p_size, i + 1, worst_id, max_fragmentation)

worst_fit_logic(blocks, p_size) == WorstFitLoop(blocks, p_size, 1, NoBlock, -1)

\* allocation_fn(current_blocks, p.size) for the algorithm main is at.
allocation_fn(blocks, p_size) ==
    CASE algos[algo] = "First-Fit" -> first_fit_logic(blocks, p_size)
      [] algos[algo] = "Best-Fit" -> best_fit_logic(blocks, p_size)
      [] algos[algo] = "Worst-Fit" -> worst_fit_logic(blocks, p_size)

\* main calls allocate for the next algorithm; allocate clones the lists and
\* sorts the cloned processes by pid (lines 103-106).
AllocateStart ==
    /\ mem_pc = "main" /\ algo <= Len(algos)
    /\ LET c == clone_memory(initial_blocks, initial_processes)
       IN  /\ block_heap' = c.block_heap
           /\ process_heap' = c.process_heap
           /\ current_blocks' = c.new_blocks
           /\ current_processes' =
                 SortRefsBy(c.new_processes,
                            [ r \in DOMAIN c.process_heap |-> c.process_heap[r].pid ])
           /\ block_map' = c.block_map
    /\ p_index' = 1
    /\ mem_pc' = "loop"
    /\ UNCHANGED << initial_blocks, initial_processes, algo >>
    /\ UNCHANGED << policy, quantum, processes_data, pc, current_time, loop_index,
                    working_list, details, ready_queue, process_index, gantt_chart,
                    results, total_waiting_time, total_turnaround_time, outcome >>

\* One iteration of "for p in current_processes" (lines 108-126).
AllocateStep ==
    /\ mem_pc = "loop" /\ p_index <= Len(current_processes)
    /\ LET p == current_processes[p_index]
           block_to_use_id == allocation_fn(current_blocks, process_heap[p].size)
       IN  IF block_to_use_id # NoBlock
           THEN LET block == block_map[block_to_use_id]
                IN  /\ process_heap' =
                          [process_heap EXCEPT
                             ![p].status = "ALLOCATED",
                             ![p].allocated_block_id = block_heap[block].bid,
                             ![p].fragmentation = block_heap[block].size - process_heap[p].size]
                    /\ block_heap' =
                          [block_heap EXCEPT
                             ![block].size = block_heap[block].size - process_heap[p].size,
                             ![block].allocated_to = process_heap[p].pid]
           ELSE /\ process_heap' = [process_heap EXCEPT ![p].status = "FAILED"]
                /\ UNCHANGED block_heap
    /\ p_index' = p_index + 1
    /\ UNCHANGED << initial_blocks, initial_processes, algo, mem_pc, current_blocks,
                    current_processes, block_map >>
    /\ UNCHANGED << policy, quantum, processes_data, pc, current_time, loop_index,
                    working_list, details, ready_queue, process_index, gantt_chart,
                    results, total_waiting_time, total_turnaround_time, outcome >>

\* allocate returns its two lists; main computes the metrics and calls
\* plot_memory_map, which sorts the returned block list by bid (line 220),
\* then goes on to the next algorithm.
AllocateReturn ==
    /\ mem_pc = "loop" /\ p_index > Len(current_processes)
    /\ current_blocks' =
          SortRefsBy(current_blocks, [ r \in DOMAIN block_heap |-> block_heap[r].bid ])
    /\ algo' = algo + 1
    /\ mem_pc' = IF algo < Len(algos) THEN "main" ELSE "done"
    /\ UNCHANGED << block_heap, process_heap, initial_blocks, initial_processes,
                    current_processes, block_map, p_index >>
    /\ UNCHANGED << policy, quantum, processes_data, pc, current_time, loop_index,
                    working_list, details, ready_queue, process_index, gantt_chart,
                    results, total_waiting_time, total_turnaround_time, outcome >>

MemNext == AllocateStart \/ AllocateStep \/ AllocateReturn

MemSpec == MemInit /\ [][MemNext]_vars

\* ================================================================= claims
GanttIdx == 1..Len(gantt_chart)
Subject(i) == gantt_chart[i][1]
Start(i) == gantt_chart[i][2]
End(i) == gantt_chart[i][3]
EntriesOf(n) == { i \in GanttIdx : Subject(i) = n }
Arrival(n) == Proc(n).arrival
Burst(n) == Proc(n).burst
Duration(e) == e[3] - e[2]
IsOf(n, e) == e[1] = n
NonIdle(e) == e[1] # IDLE

RECURSIVE SumDurations(_)
SumDurations(g) == IF g = << >> THEN 0 ELSE Duration(g[1]) + SumDurations(Tail(g))

\* Every process has exactly one row in the table, with a completion time.
AllCompleted ==
    /\ Len(results) = Len(processes_data)
    /\ \A n \in Names : \E i \in 1..Len(results) : results[i].name = n
    /\ \A i \in 1..Len(results) : results[i].completion_time # Unset
    /\ policy \in { "RR", "PRIO" } => \A n \in Names : details[n].completed

\* C1: two non-idle timeline entries of different processes never overlap
\* (e1 <= s2 or e2 <= s1), in every state of every policy's run.
C1_NonOverlap ==
    \A i, j \in GanttIdx :
        (Subject(i) # IDLE /\ Subject(j) # IDLE /\ Subject(i) # Subject(j))
            => (End(i) <= Start(j) \/ End(j) <= Start(i))

\* A process was preempted: another process ran between two of its entries.
C1_Witness ==
    /\ pc = "done"
    /\ \E i, j, k \in GanttIdx :
          /\ i < j /\ j < k
          /\ Subject(i) = Subject(k) /\ Subject(i) # IDLE
          /\ Subject(j) # IDLE /\ Subject(j) # Subject(i)

\* C2: when the run has ended, the entries of each process add up to its
\* burst_time and the non-idle entries add up to the sum of the burst times.
C2_WorkConservation ==
    pc = "done" =>
        /\ \A n \in Names :
              LET IsN(e) == IsOf(n, e)
              IN  SumDurations(SelectSeq(gantt_chart, IsN)) = Burst(n)
        /\ SumDurations(SelectSeq(gantt_chart, NonIdle)) = total_burst

\* A finished run in which some process ran in several slices and the CPU
\* was idle for a while.
C2_Witness ==
    /\ pc = "done"
    /\ \E n \in Names : Cardinality(EntriesOf(n)) >= 2
    /\ \E i \in GanttIdx : Subject(i) = IDLE

\* The entries of g, in this order, tile [0, last_end).
Tiles(g) ==
    g # << >> =>
        /\ g[1][2] = 0
        /\ \A i \in 1..(Len(g) - 1) : g[i + 1][2] = g[i][3]

\* C3: when the run has ended, the timeline entries (IDLE included), sorted by
\* start, tile [0, last_end): the first starts at 0 and each starts where the
\* previous one ends.
C3_TimelineTiles == pc = "done" => Tiles(StableSortBy(gantt_chart, 2))

\* C3, for the three policies that emit IDLE entries.
C3_TimelineTilesExceptFcfs ==
    (pc = "done" /\ policy # "FCFS") => Tiles(StableSortBy(gantt_chart, 2))

\* C4: every run terminates, and when it has terminated every process is
\* completed with a completion time recorded (so the priority loop was not
\* left at the safety bound with a process incomplete).
C4_Terminates == <>(pc = "done" /\ AllCompleted)

\* A finished priority run whose clock ended one below the safety bound.
C4_Witness ==
    /\ pc = "done" /\ policy = "PRIO"
    /\ AllCompleted
    /\ Len(processes_data) >= 2
    /\ current_time = max_time - 1
LastEntry(g) == g[Len(g)]

\* The processes available to SJF at the current clock time, and those among
\* them with the smallest burst_time.
SjfAvailableNames ==
    { working_list[i].name : i \in { j \in 1..Len(working_list) :
                                       SjfIsAvailable(working_list[j]) } }
SjfShortest == { n \in SjfAvailableNames : \A m \in SjfAvailableNames : Burst(n) <= Burst(m) }

C6_SjfShortestRunsToCompletion ==
    [][SjfDispatch =>
         LET e == LastEntry(gantt_chart')
             sel == e[1]
         IN  /\ sel \in SjfShortest
             /\ e = << sel, current_time, current_time + Burst(sel) >>
             /\ current_time' = current_time + Burst(sel)
             /\ { i \in 1..Len(gantt_chart') : gantt_chart'[i][1] = sel }
                    = { Len(gantt_chart') }
             /\ \A i \in 1..Len(working_list) :
                   working_list'[i].completed =
                       (working_list[i].completed \/ working_list[i].name = sel)]_vars

\* SJF dispatched a process while a longer one was waiting.
C6_Witness ==
    /\ policy = "SJF" /\ pc = "loop" /\ gantt_chart # << >>
    /\ LET a == LastEntry(gantt_chart)[1]
           s == LastEntry(gantt_chart)[2]
       IN  /\ a # IDLE
           /\ \E i \in 1..Len(working_list) :
                 /\ ~working_list[i].completed
                 /\ working_list[i].arrival <= s
                 /\ working_list[i].burst > Burst(a)

Position(q, n) == CHOOSE i \in 1..Len(q) : q[i] = n
InSeq(q, n) == \E i \in 1..Len(q) : q[i] = n

\* C7: when a Round Robin slice of p ends at t with remaining > 0, p is put at
\* the back of the ready queue, behind every other unfinished process with
\* arrival_time <= t.
C7_AdmitBeforeRequeue ==
    [][RrSlice =>
         LET p == LastEntry(gantt_chart')[1]
         IN  details'[p].remaining > 0 =>
               /\ ready_queue' # << >>
               /\ LastEntry(ready_queue') = p
               /\ \A n \in Names \ { p } :
                     (~details'[n].completed /\ Arrival(n) <= current_time')
                         => /\ InSeq(ready_queue', n)
                            /\ Position(ready_queue', n) < Len(ready_queue')]_vars

\* A process was re-queued behind a process that arrived during its slice
\* or exactly at its end.
C7_Witness ==
    /\ policy = "RR" /\ pc = "loop" /\ gantt_chart # << >>
    /\ LET e == LastEntry(gantt_chart)
       IN  /\ e[1] # IDLE
           /\ e[3] = current_time
           /\ details[e[1]].remaining > 0
           /\ ready_queue # << >>
           /\ LastEntry(ready_queue) = e[1]
           /\ \E n \in Names \ { e[1] } :
                 /\ e[2] < Arrival(n) /\ Arrival(n) = e[3]
                 /\ InSeq(ready_queue, n)
                 /\ Position(ready_queue, n) < Len(ready_queue)

\* The processes available to the priority policy at the current clock time.
PrioAvailableNames == { n \in Names : PrioIsAvailable(n) }
PrioBest ==
    { n \in PrioAvailableNames :
        \A m \in PrioAvailableNames : Proc(n).priority <= Proc(m).priority }

\* C8: at every decision point of the priority policy the dispatched process
\* has the smallest priority number among the available processes, and among
\* several such processes it is the earliest in the original input order.
C8_PrioritySelection ==
    [][PrioDispatch => LastEntry(gantt_chart')[1] = SetMin(PrioBest)]_vars

\* The priority policy dispatched a process while a later process of the
\* input with the same priority was waiting.
C8_Witness ==
    /\ policy = "PRIO" /\ pc = "loop" /\ gantt_chart # << >>
    /\ LET a == LastEntry(gantt_chart)[1]
           s == LastEntry(gantt_chart)[2]
       IN  /\ a # IDLE
           /\ \E b \in Names :
                 /\ b > a
                 /\ Proc(b).priority = Proc(a).priority
                 /\ Arrival(b) <= s
                 /\ ~details[b].completed

\* C9: a slice of the selected process started at current_time ends at
\* current_time + remaining, or earlier at the first later arrival of a
\* process with a strictly smaller priority number; no other arrival ends it;
\* remaining is reduced by the slice length.  On the test case of the main
\* block the first slice is P1 [0, 2) and leaves P1 a remaining of 5.
C9_SliceEndsAtNextEvent ==
    [][PrioDispatch =>
         LET e == LastEntry(gantt_chart')
             p == e[1]
             Preempting == { Arrival(n) : n \in { m \in Names :
                                 /\ Arrival(m) > current_time
                                 /\ Proc(m).priority < Proc(p).priority } }
             finish == current_time + details[p].remaining
         IN  /\ e[2] = current_time
             /\ e[3] = current_time'
             /\ e[3] = IF Preempting # {} /\ SetMin(Preempting) < finish
                       THEN SetMin(Preempting) ELSE finish
             /\ details'[p].remaining = details[p].remaining - (e[3] - e[2])
             /\ (processes_data = test_processes_with_priority /\ gantt_chart = << >>)
                   => (e = << 1, 0, 2 >> /\ details'[1].remaining = 5)]_vars

\* A slice ran past the arrival of a process of equal or lower priority.
C9_Witness ==
    /\ policy = "PRIO" /\ pc = "loop" /\ gantt_chart # << >>
    /\ LET e == LastEntry(gantt_chart)
       IN  /\ e[1] # IDLE
           /\ \E n \in Names \ { e[1] } :
                 /\ e[2] < Arrival(n) /\ Arrival(n) < e[3]
                 /\ Proc(n).priority >= Proc(e[1]).priority

\* FCFS dispatches in non-decreasing arrival_time order, ties in input order;
\* each process gets one entry that starts at max(previous completion,
\* arrival_time) and lasts burst_time.
FcfsOrderAndTimes ==
    /\ \A i, j \in GanttIdx :
          i < j => \/ Arrival(Subject(i)) < Arrival(Subject(j))
                   \/ /\ Arrival(Subject(i)) = Arrival(Subject(j))
                      /\ Subject(i) < Subject(j)
    /\ \A i \in GanttIdx :
          /\ Subject(i) \in Names
          /\ Start(i) = Max2(IF i = 1 THEN 0 ELSE End(i - 1), Arrival(Subject(i)))
          /\ End(i) = Start(i) + Burst(Subject(i))
          /\ results[i].name = Subject(i)
          /\ results[i].completion_time = End(i)
    /\ pc = "done" => Len(gantt_chart) = Len(processes_data)

\* The finished FCFS run on the test case of the main block has the completion
\* times ct and the waiting times wt.
FcfsTestCaseGives(ct, wt) ==
    (pc = "done" /\ processes_data = test_processes_no_priority) =>
        /\ [ i \in 1..Len(results) |-> results[i].completion_time ] = ct
        /\ [ i \in 1..Len(results) |-> results[i].waiting_time ] = wt

\* C10 as stated: FCFS order and entry times, and on the test case of the main
\* block the completion times 7, 11, 12, 16 and the waiting times 0, 5, 8, 7.
C10_FcfsAsStated ==
    (policy = "FCFS" /\ pc \in { "loop", "done" }) =>
        /\ FcfsOrderAndTimes
        /\ FcfsTestCaseGives(<< 7, 11, 12, 16 >>, << 0, 5, 8, 7 >>)

\* C10 amended: FCFS order and entry times, and on the test case of the main
\* block the completion times 7, 11, 12, 16 and the waiting times 0, 5, 7, 7.
C10_FcfsOrderAndTimes ==
    (policy = "FCFS" /\ pc \in { "loop", "done" }) =>
        /\ FcfsOrderAndTimes
        /\ FcfsTestCaseGives(<< 7, 11, 12, 16 >>, << 0, 5, 7, 7 >>)

\* A finished FCFS run with two processes of equal arrival_time and a
\* process that had to wait for the previous one.
C10_Witness ==
    /\ policy = "FCFS" /\ pc = "done"
    /\ \E i \in GanttIdx : i > 1 /\ Start(i) > Arrival(Subject(i))
    /\ \E i, j \in GanttIdx : i < j /\ Arrival(Subject(i)) = Arrival(Subject(j))


\* ------------------------------------------------------------ error handling
\* The spec's valid input: no negative arrival time, no burst time <= 0 and,
\* for Round Robin, a quantum > 0.
ValidInput ==
    /\ \A i \in 1..Len(processes_data) :
          processes_data[i].arrival >= 0 /\ processes_data[i].burst > 0
    /\ policy = "RR" => quantum > 0

Raised == { "ZeroDivisionError", "ValueError" }

\* C11: a call with an empty process list ends without raising an error (no
\* division by zero in the averages, no error in the simulation bound).
C11_EmptyListEndsWithoutError ==
    (pc = "done" /\ processes_data = << >>) => outcome \notin Raised

\* C12: a call whose input is invalid (negative arrival time, burst time <= 0,
\* or for Round Robin a quantum <= 0) emits no timeline entry and does not end
\* as an ordinary run.
C12_InvalidInputRejected ==
    ~ValidInput => (gantt_chart = << >> /\ outcome # "ok")

\* C13: a priority run whose loop ended with a process still incomplete does
\* not end as an ordinary run and reports no row of figures.
C13_BoundReachedIsFailure ==
    (policy = "PRIO" /\ pc = "done" /\ Incomplete # {})
        => (outcome # "ok" /\ results = << >>)

\* C14: no step of a run changes the caller's sequence of process records.
C14_CallerSequenceUnchanged ==
    [][processes_data' = processes_data]_vars

\* ------------------------------------------------------------------ idling
\* The arrival times of the processes not yet completed, in the three
\* policies that emit IDLE entries.
UnfinishedArrivals ==
    IF policy = "SJF"
    THEN { working_list[i].arrival :
             i \in { j \in 1..Len(working_list) : working_list[j].completed = FALSE } }
    ELSE { details[n].arrival : n \in { m \in DOMAIN details : ~details[m].completed } }

NoneAvailable ==
    /\ policy \in { "SJF", "RR", "PRIO" } /\ pc = "loop"
    /\ UnfinishedArrivals # {}
    /\ \A a \in UnfinishedArrivals : a > current_time

\* C15: in SJF, Round Robin and preemptive priority, a step taken while no
\* unfinished process has arrived sets the clock to the smallest arrival time
\* of the unfinished processes and appends exactly one IDLE entry
\* [old clock, that arrival); every idle step of the three policies is such a
\* step, none advances the clock by a unit tick.
C15_IdleJumpsToNextArrival ==
    [][(NoneAvailable \/ SjfIdle \/ RrIdle \/ PrioIdle)
          => /\ NoneAvailable
             /\ current_time' = SetMin(UnfinishedArrivals)
             /\ gantt_chart' = Append(gantt_chart,
                                      << IDLE, current_time, current_time' >>)]_vars

C15_Witness ==
    /\ policy = "PRIO"
    /\ \E i \in GanttIdx : Subject(i) = IDLE /\ End(i) - Start(i) >= 2

\* C16: at the end of every run each process has a row with waiting_time >= 0
\* and turnaround_time >= 0, and its completion_time is at least
\* arrival_time + burst_time.
C16_NonNegativeFigures ==
    pc = "done" =>
        /\ \A n \in Names : \E i \in 1..Len(results) : results[i].name = n
        /\ \A i \in 1..Len(results) :
              /\ results[i].waiting_time >= 0
              /\ results[i].turnaround_time >= 0
              /\ results[i].completion_time
                    >= Arrival(results[i].name) + Burst(results[i].name)

C16_Witness ==
    /\ pc = "done" /\ policy = "RR"
    /\ \E i \in 1..Len(results) : results[i].waiting_time > 0

\* C17: at the end of every run each row has turnaround_time =
\* completion_time - arrival_time and waiting_time + burst_time =
\* turnaround_time, where completion_time is the end of the process's last
\* timeline entry and arrival and burst are those of the input record.
C17_FiguresFromCompletion ==
    pc = "done" =>
        \A i \in 1..Len(results) :
            LET r == results[i]
                n == r.name
            IN  /\ EntriesOf(n) # {}
                /\ r.completion_time = End(SetMax(EntriesOf(n)))
                /\ r.turnaround_time = r.completion_time - Arrival(n)
                /\ r.waiting_time + Burst(n) = r.turnaround_time

C17_Witness ==
    /\ pc = "done" /\ policy = "PRIO"
    /\ \E i \in 1..Len(results) :
          /\ Cardinality(EntriesOf(results[i].name)) >= 2
          /\ results[i].waiting_time > 0

\* ------------------------------------------- the preemptive policies' state
Preemptive == policy \in { "RR", "PRIO" }

RemainingInRange(d) ==
    \A n \in DOMAIN d :
        /\ 0 <= d[n].remaining /\ d[n].remaining <= d[n].burst
        /\ d[n].completed <=> d[n].remaining = 0

\* C18: in Round Robin and preemptive priority every state reached has
\* 0 <= remaining <= burst for each process, no step increases a remaining
\* time, and a process becomes completed in exactly the step in which its
\* remaining time becomes 0.
C18_RemainingDecreasesToZero ==
    [][Preemptive =>
          /\ RemainingInRange(details')
          /\ pc = "loop" =>
                \A n \in DOMAIN details :
                    /\ details'[n].remaining <= details[n].remaining
                    /\ (details'[n].completed /\ ~details[n].completed)
                          <=> (details'[n].remaining = 0 /\ details[n].remaining > 0)]_vars

C18_Witness ==
    /\ Preemptive /\ pc = "loop"
    /\ \E n \in DOMAIN details :
          0 < details[n].remaining /\ details[n].remaining < details[n].burst
    /\ \E n \in DOMAIN details : details[n].completed

\* The indexes of the entries of process n in a timeline g.
EntriesIn(g, n) == { i \in 1..Len(g) : g[i][1] = n }

\* C19: in Round Robin and preemptive priority the start_time of a process is
\* unset until its first dispatch, is set by that dispatch to the clock value,
\* and is not changed by any later step: in every state, the final one
\* included, it is the start of the process's earliest timeline entry.
C19_StartTimeIsFirstDispatch ==
    [][(Preemptive /\ pc = "loop") =>
          \A n \in DOMAIN details :
              /\ details[n].start_time # Unset
                    => details'[n].start_time = details[n].start_time
              /\ (details[n].start_time = Unset /\ details'[n].start_time # Unset)
                    => /\ details'[n].start_time = current_time
                       /\ gantt_chart' = Append(gantt_chart,
                                                << n, current_time, current_time' >>)
              /\ IF EntriesIn(gantt_chart', n) = {}
                 THEN details'[n].start_time = Unset
                 ELSE details'[n].start_time
                         = gantt_chart'[SetMin(EntriesIn(gantt_chart', n))][2]]_vars

C19_Witness ==
    /\ policy = "RR" /\ pc = "done"
    /\ \E n \in DOMAIN details :
          /\ details[n].start_time > details[n].arrival
          /\ Cardinality(EntriesOf(n)) >= 2
          /\ details[n].start_time = Start(SetMin(EntriesOf(n)))

\* C20: in Round Robin with quantum Q every slice appends one entry whose
\* length is min(Q, remaining time before the slice): it is never longer than
\* Q, and when it is shorter than Q it completes the process, whose
\* completion_time is the end of that entry.
C20_SliceLength ==
    [][RrSlice =>
          LET e == LastEntry(gantt_chart')
              n == e[1]
          IN  /\ gantt_chart' = Append(gantt_chart, e)
              /\ n # IDLE /\ e[2] = current_time
              /\ Duration(e) = Min2(quantum, details[n].remaining)
              /\ Duration(e) <= quantum
              /\ Duration(e) < quantum
                    => /\ details'[n].remaining = 0
                       /\ details'[n].completed
                       /\ details'[n].completion_time = e[3]]_vars

C20_Witness ==
    /\ policy = "RR"
    /\ \E i, j \in GanttIdx :
          /\ i < j /\ Subject(i) # IDLE /\ Subject(i) = Subject(j)
          /\ End(i) - Start(i) = quantum
          /\ End(j) - Start(j) < quantum
          /\ details[Subject(j)].completion_time = End(j)

\* ------------------------------------------------------ priority, fairness
\* C23: in the preemptive-priority policy, for the entry (p, s, e) appended by
\* a dispatch and every instant t with s <= t < e, no process that has arrived
\* by t and is not completed has a priority number strictly smaller than p's.
C23_NoHigherPriorityWaits ==
    [][PrioDispatch =>
         LET e == LastEntry(gantt_chart')
             p == e[1]
         IN  \A t \in e[2]..(e[3] - 1) :
                 \A n \in Names :
                     (Arrival(n) <= t /\ ~details[n].completed)
                         => Proc(n).priority >= Proc(p).priority]_vars

\* A slice of the priority policy was cut at the arrival of a process with a
\* smaller priority number, which ran next while the preempted one waited.
C23_Witness ==
    /\ policy = "PRIO"
    /\ \E i \in GanttIdx :
          /\ i + 1 \in GanttIdx
          /\ Subject(i) # IDLE /\ Subject(i + 1) # IDLE
          /\ Proc(Subject(i + 1)).priority < Proc(Subject(i)).priority
          /\ Start(i) < Arrival(Subject(i + 1))
          /\ Arrival(Subject(i + 1)) = End(i)
          /\ \E j \in GanttIdx : j > i + 1 /\ Subject(j) = Subject(i)

\* The time process n has run in the first i entries of the timeline.
RunUpTo(n, i) ==
    SumSeq([ k \in 1..i |-> IF Subject(k) = n THEN End(k) - Start(k) ELSE 0 ])

\* Entries i < j are two consecutive slices of the same process.
ConsecutiveSlices(i, j) ==
    /\ i < j /\ Subject(i) # IDLE /\ Subject(i) = Subject(j)
    /\ \A k \in (i + 1)..(j - 1) : Subject(k) # Subject(i)

\* After a Round Robin slice the ready queue holds exactly the unfinished
\* processes that have arrived by the end of the slice.
RrQueueHoldsArrivedUnfinished ==
    (policy = "RR" /\ pc = "loop" /\ gantt_chart # << >>
       /\ LastEntry(gantt_chart)[1] # IDLE)
        => \A n \in Names :
              InSeq(ready_queue, n)
                 <=> (Arrival(n) <= current_time /\ ~details[n].completed)

\* C24: in Round Robin, between two consecutive slices of a process p no entry
\* is idle, no other process has more than one slice, and every process that
\* was in the ready queue when p was re-queued (the unfinished processes
\* arrived by the end of p's slice) has exactly one slice.
C24_FifoBoundedWaiting ==
    /\ RrQueueHoldsArrivedUnfinished
    /\ policy = "RR" =>
          \A i, j \in GanttIdx :
              ConsecutiveSlices(i, j) =>
                  /\ \A k \in (i + 1)..(j - 1) : Subject(k) # IDLE
                  /\ \A n \in Names \ { Subject(i) } :
                        LET between == { k \in (i + 1)..(j - 1) : Subject(k) = n }
                        IN  /\ Cardinality(between) <= 1
                            /\ (Arrival(n) <= End(i) /\ RunUpTo(n, i) < Burst(n))
                                  => Cardinality(between) = 1

\* Three other processes each ran one slice between two consecutive slices
\* of a process.
C24_Witness ==
    /\ policy = "RR"
    /\ \E i, j \in GanttIdx : ConsecutiveSlices(i, j) /\ j - i >= 4

\* ------------------------------------------------- Round Robin versus FCFS
\* simulate_fcfs as a function of the input: the list sorted by arrival
\* (line 65) and, for its i-th record, the start and completion times the
\* loop of lines 75-83 computes.
FcfsSorted == StableSortBy(processes_data, "arrival")

RECURSIVE FcfsCompletionAt(_)
FcfsCompletionAt(i) ==
    IF i = 0 THEN 0
    ELSE FcfsStartTime(FcfsCompletionAt(i - 1), FcfsSorted[i].arrival) + FcfsSorted[i].burst

FcfsStartAt(i) == FcfsStartTime(FcfsCompletionAt(i - 1), FcfsSorted[i].arrival)

LargestBurst == SetMax({ processes_data[i].burst : i \in 1..Len(processes_data) })

\* C25: a finished FCFS run gives each process the start and completion time
\* of FcfsStartAt and FcfsCompletionAt, and a finished Round Robin run whose
\* quantum is at least the largest burst time gives each process those same
\* start and completion times.
C25_RoundRobinAsFcfs ==
    /\ (policy = "FCFS" /\ pc = "done") =>
          \A i \in 1..Len(processes_data) :
              /\ gantt_chart[i]
                    = << FcfsSorted[i].name, FcfsStartAt(i), FcfsCompletionAt(i) >>
              /\ results[i].name = FcfsSorted[i].name
              /\ results[i].completion_time = FcfsCompletionAt(i)
    /\ (policy = "RR" /\ pc = "done" /\ quantum >= LargestBurst) =>
          \A i \in 1..Len(processes_data) :
              LET n == FcfsSorted[i].name
              IN  /\ details[n].start_time = FcfsStartAt(i)
                  /\ details[n].completion_time = FcfsCompletionAt(i)
                  /\ \E k \in 1..Len(results) :
                        /\ results[k].name = n
                        /\ results[k].completion_time = FcfsCompletionAt(i)

\* A Round Robin run with a quantum no smaller than any burst ended, in which
\* the input was not in arrival order, a process waited and the processor
\* was idle for a while.
C25_Witness ==
    /\ policy = "RR" /\ pc = "done" /\ quantum >= LargestBurst
    /\ Len(processes_data) >= 2
    /\ processes_data # FcfsSorted
    /\ \E n \in Names : details[n].start_time > Arrival(n)
    /\ \E i \in GanttIdx : Subject(i) = IDLE

\* -------------------------------------------------------- memory allocation
\* C21: no step changes the block list and the process list main passes to
\* allocate, nor any field of the objects in them, and every call of allocate
\* starts from clones with the blocks' initial sizes, no block allocated and
\* every process PENDING with no block and no fragmentation.
C21_AllocateLeavesArguments ==
    [][/\ initial_blocks' = initial_blocks
       /\ initial_processes' = initial_processes
       /\ \A i \in 1..Len(initial_blocks) :
             block_heap'[initial_blocks[i]] = block_heap[initial_blocks[i]]
       /\ \A i \in 1..Len(initial_processes) :
             process_heap'[initial_processes[i]] = process_heap[initial_processes[i]]
       /\ AllocateStart =>
             /\ Len(current_blocks') = Len(initial_blocks)
             /\ Len(current_processes') = Len(initial_processes)
             /\ \A i \in 1..Len(initial_blocks) :
                   block_heap'[current_blocks'[i]]
                      = NewBlock(i, block_heap[initial_blocks[i]].initial_size)
             /\ \A i \in 1..Len(initial_processes) :
                   process_heap'[current_processes'[i]]
                      = NewProcess(i, process_heap[initial_processes[i]].size)]_vars

\* The third algorithm is running after the first two have allocated blocks
\* to processes and have left some process FAILED.
C21_Witness ==
    /\ mem_pc = "loop" /\ algos[algo] = "Worst-Fit" /\ p_index > 1
    /\ \E r \in DOMAIN block_heap : block_heap[r].allocated_to # None
    /\ \E r \in DOMAIN process_heap : process_heap[r].status = "FAILED"
    /\ \A i \in 1..Len(initial_blocks) :
          block_heap[initial_blocks[i]].allocated_to = None

\* The positions of the blocks of a list that are large enough for p_size,
\* and those among them that leave the least.
Fitting(blocks, p_size) == { i \in 1..Len(blocks) : block_heap[blocks[i]].size >= p_size }
LeastLeftover(blocks, p_size) ==
    { i \in Fitting(blocks, p_size) :
        \A j \in Fitting(blocks, p_size) :
            block_heap[blocks[i]].size - p_size <= block_heap[blocks[j]].size - p_size }

BestFitAsSpecified(blocks, p_size) ==
    LET result == best_fit_logic(blocks, p_size)
    IN  /\ result = NoBlock <=> Fitting(blocks, p_size) = {}
        /\ Fitting(blocks, p_size) # {}
              => result = block_heap[blocks[SetMin(LeastLeftover(blocks, p_size))]].bid

\* The sizes best_fit_logic is asked for: those of the processes and every
\* size from 0 to one more than the largest block size of the bounds.
RequestSizes ==
    { process_heap[r].size : r \in DOMAIN process_heap } \cup 0..(MaxSize + 1)

\* C22: for main's block list and for allocate's block list in every state,
\* and every request size, best_fit_logic returns -1 exactly when no block
\* has size >= p_size, and otherwise the bid of the earliest block in list
\* order among the fitting blocks with the smallest leftover size - p_size.
C22_BestFitLogic ==
    \A p_size \in RequestSizes :
        /\ BestFitAsSpecified(initial_blocks, p_size)
        /\ BestFitAsSpecified(current_blocks, p_size)

\* Best-Fit is about to place a process for which two blocks tie for the
\* least leftover, neither being the first block that fits, and
\* best_fit_logic returns the earlier of the two.
C22_Witness ==
    /\ mem_pc = "loop" /\ algos[algo] = "Best-Fit" /\ p_index <= Len(current_processes)
    /\ LET p_size == process_heap[current_processes[p_index]].size
           least == LeastLeftover(current_blocks, p_size)
       IN  /\ Cardinality(least) >= 2
           /\ SetMin(Fitting(current_blocks, p_size)) \notin least
           /\ best_fit_logic(current_blocks, p_size)
                 = block_heap[current_blocks[SetMin(least)]].bid

\* The sizes of the processes of allocate's list that hold the block bid.
AllocatedIn(bid) ==
    SumSeq([ k \in 1..Len(current_processes) |->
               IF process_heap[current_processes[k]].allocated_block_id = bid
               THEN process_heap[current_processes[k]].size ELSE 0 ])

\* Every block of allocate's list has a remaining size >= 0, which is the
\* size of main's block with that bid less the sizes of the processes
\* allocated to the block.
BlocksAccounted ==
    \A i \in 1..Len(current_blocks) :
        LET block == block_heap[current_blocks[i]]
        IN  /\ block.size >= 0
            /\ block.initial_size = block_heap[initial_blocks[block.bid]].size
            /\ block.size = block.initial_size - AllocatedIn(block.bid)

\* C26: in every state of allocate, with each of the three fit functions,
\* every block's remaining size is >= 0 and equals its initial size minus the
\* sizes of the processes allocated to it; and a step marks its process
\* FAILED only if no block has a remaining size >= the process's size.
C26_BlockSizesAccounted ==
    /\ []BlocksAccounted
    /\ [][AllocateStep =>
             LET p == current_processes[p_index]
             IN  /\ process_heap'[p].status \in { "ALLOCATED", "FAILED" }
                 /\ process_heap'[p].status = "FAILED"
                       => \A i \in 1..Len(current_blocks) :
                             block_heap[current_blocks[i]].size < process_heap[p].size]_vars

\* A block holds two processes, another process has FAILED, and a block has
\* been filled to the last unit.
C26_Witness ==
    /\ mem_pc = "loop"
    /\ \E i \in 1..Len(current_blocks) :
          Cardinality({ k \in 1..Len(current_processes) :
                          process_heap[current_processes[k]].allocated_block_id
                             = block_heap[current_blocks[i]].bid }) >= 2
    /\ \E k \in 1..Len(current_processes) :
          process_heap[current_processes[k]].status = "FAILED"

====
